---- MODULE Spec2Model ----
(***************************************************************************)
(* Model of the dataset ingestion pipeline of csv-analysis-agent           *)
(* (src/src/data_processing/file_processor.py) and of the Streamlit        *)
(* session handlers that drive it (src/src/streamlit_app/                  *)
(* agent_interface.py).                                                    *)
(*                                                                         *)
(* Bytes are integers 0..255, text is a sequence of Unicode code points,   *)
(* a file name is a record of its directory part, stem and extension.      *)
(***************************************************************************)
EXTENDS Integers, Sequences, FiniteSets, TLC

(***************************************************************************)
(* Bounds of the model.                                                    *)
(***************************************************************************)
\* longest raw byte string fed to read_csv_file in the codec specification
MaxLen == 3
\* most registrations of the exit handler in one process
MaxInit == 2
\* longest data cell of a text that is encoded and then read back
MaxCell == 2
\* most columns of a table whose column names are normalized
MaxCols == 3
\* longest column name drawn from the whole name alphabet
MaxName == 2
\* most names passed to one cleanup_specific_files call
MaxNames == 2
\* most cleanup_specific_files calls made in a row with the same names
MaxCalls == 2
\* most pieces a response text passed to render_response_with_images is made of
MaxPieces == 3

(***************************************************************************)
(* Characters and bytes used by the inputs.                                *)
(***************************************************************************)
LF == 10
COMMA == 44
UNDERSCORE == 95

RECURSIVE SeqSum(_)
SeqSum(s) == IF s = <<>> THEN 0 ELSE Head(s) + SeqSum(Tail(s))

Range(s) == {s[i] : i \in 1..Len(s)}

\* the elements of a finite set, in some fixed order
RECURSIVE SetToSeq(_)
SetToSeq(S) ==
    IF S = {} THEN <<>>
    ELSE LET x == CHOOSE y \in S : TRUE IN <<x>> \o SetToSeq(S \ {x})

(***************************************************************************)
(* Text codecs, as the Python codecs named in the encodings list behave.   *)
(* A decoder returns [ok, text]; ok = FALSE stands for UnicodeDecodeError. *)
(***************************************************************************)
DecodeError == [ok |-> FALSE, text |-> <<>>]

IsCont(b) == b >= 128 /\ b <= 191

\* strict UTF-8: shortest form only, no surrogates, at most U+10FFFF
RECURSIVE Utf8Decode(_)
Utf8Decode(bs) ==
    IF bs = <<>> THEN [ok |-> TRUE, text |-> <<>>]
    ELSE LET b == bs[1]
             n == Len(bs)
             rest(k) == Utf8Decode(SubSeq(bs, k + 1, n))
             cons(cp, k) == LET r == rest(k)
                            IN IF r.ok THEN [ok |-> TRUE, text |-> <<cp>> \o r.text]
                               ELSE DecodeError
         IN IF b < 128 THEN cons(b, 1)
            ELSE IF b >= 194 /\ b <= 223
                 THEN IF n >= 2 /\ IsCont(bs[2])
                      THEN cons((b - 192) * 64 + (bs[2] - 128), 2)
                      ELSE DecodeError
            ELSE IF b >= 224 /\ b <= 239
                 THEN IF /\ n >= 3 /\ IsCont(bs[2]) /\ IsCont(bs[3])
                         /\ (b = 224 => bs[2] >= 160)
                         /\ (b = 237 => bs[2] <= 159)
                      THEN cons((b - 224) * 4096 + (bs[2] - 128) * 64 + (bs[3] - 128), 3)
                      ELSE DecodeError
            ELSE IF b >= 240 /\ b <= 244
                 THEN IF /\ n >= 4 /\ IsCont(bs[2]) /\ IsCont(bs[3]) /\ IsCont(bs[4])
                         /\ (b = 240 => bs[2] >= 144)
                         /\ (b = 244 => bs[2] <= 143)
                      THEN cons((b - 240) * 262144 + (bs[2] - 128) * 4096
                                + (bs[3] - 128) * 64 + (bs[4] - 128), 4)
                      ELSE DecodeError
            ELSE DecodeError

\* a Latin-1 decoder that rejects the C1 range 0x80..0x9F
Latin1Decode_rejecting_c1(bs) ==
    IF \E i \in 1..Len(bs) : bs[i] >= 128 /\ bs[i] <= 159
    THEN [ok |-> FALSE, text |-> <<>>]
    ELSE [ok |-> TRUE, text |-> bs]

\* latin-1 (and its alias iso-8859-1): every byte is its own code point
Latin1Decode(bs) == [ok |-> TRUE, text |-> bs]

\* cp1252 differs from latin-1 on 0x80..0x9F; five bytes there are undefined
Cp1252High ==
    [b \in 128..159 |->
        CASE b = 128 -> 8364 [] b = 130 -> 8218 [] b = 131 -> 402
          [] b = 132 -> 8222 [] b = 133 -> 8230 [] b = 134 -> 8224
          [] b = 135 -> 8225 [] b = 136 -> 710  [] b = 137 -> 8240
          [] b = 138 -> 352  [] b = 139 -> 8249 [] b = 140 -> 338
          [] b = 142 -> 381  [] b = 145 -> 8216 [] b = 146 -> 8217
          [] b = 147 -> 8220 [] b = 148 -> 8221 [] b = 149 -> 8226
          [] b = 150 -> 8211 [] b = 151 -> 8212 [] b = 152 -> 732
          [] b = 153 -> 8482 [] b = 154 -> 353  [] b = 155 -> 8250
          [] b = 156 -> 339  [] b = 158 -> 382  [] b = 159 -> 376
          [] OTHER -> -1]

Cp1252Char(b) == IF b >= 128 /\ b <= 159 THEN Cp1252High[b] ELSE b

Cp1252Decode(bs) ==
    IF \E i \in 1..Len(bs) : Cp1252Char(bs[i]) = -1 THEN DecodeError
    ELSE [ok |-> TRUE, text |-> [i \in 1..Len(bs) |-> Cp1252Char(bs[i])]]

Decode(bs, encoding) ==
    CASE encoding = "utf-8" -> Utf8Decode(bs)
      [] encoding = "latin-1" -> Latin1Decode(bs)
      [] encoding = "cp1252" -> Cp1252Decode(bs)
      [] encoding = "iso-8859-1" -> Latin1Decode(bs)

(***************************************************************************)
(* Encoders, used to build the byte strings of texts written in a given    *)
(* encoding.  ok = FALSE: the text has a character the encoding lacks.     *)
(***************************************************************************)
EncodeError == [ok |-> FALSE, bytes |-> <<>>]

Utf8EncodeChar(cp) ==
    IF cp < 128 THEN <<cp>>
    ELSE IF cp < 2048 THEN <<192 + (cp \div 64), 128 + (cp % 64)>>
    ELSE IF cp < 65536
         THEN <<224 + (cp \div 4096), 128 + ((cp \div 64) % 64), 128 + (cp % 64)>>
    ELSE <<240 + (cp \div 262144), 128 + ((cp \div 4096) % 64),
           128 + ((cp \div 64) % 64), 128 + (cp % 64)>>

RECURSIVE Flatten(_)
Flatten(ss) == IF ss = <<>> THEN <<>> ELSE Head(ss) \o Flatten(Tail(ss))

Utf8Encode(text) ==
    [ok |-> TRUE, bytes |-> Flatten([i \in 1..Len(text) |-> Utf8EncodeChar(text[i])])]

Latin1Encode(text) ==
    IF \E i \in 1..Len(text) : text[i] > 255 THEN EncodeError
    ELSE [ok |-> TRUE, bytes |-> text]

Cp1252Byte(cp) ==
    IF cp < 128 \/ (cp >= 160 /\ cp <= 255) THEN cp
    ELSE IF \E b \in 128..159 : Cp1252High[b] = cp
         THEN CHOOSE b \in 128..159 : Cp1252High[b] = cp
         ELSE -1

Cp1252Encode(text) ==
    IF \E i \in 1..Len(text) : Cp1252Byte(text[i]) = -1 THEN EncodeError
    ELSE [ok |-> TRUE, bytes |-> [i \in 1..Len(text) |-> Cp1252Byte(text[i])]]

Encode(text, encoding) ==
    CASE encoding = "utf-8" -> Utf8Encode(text)
      [] encoding = "latin-1" -> Latin1Encode(text)
      [] encoding = "cp1252" -> Cp1252Encode(text)
      [] encoding = "iso-8859-1" -> Latin1Encode(text)

(***************************************************************************)
(* pandas.read_csv on decoded text, default options, for text without      *)
(* quotes, carriage returns or digits: blank lines are skipped, the first  *)
(* line is the header, a data line wider than the header gives implicit    *)
(* index columns when it is the first data line and a tokenizing error     *)
(* when it is a later one, short lines are padded with missing values.     *)
(***************************************************************************)
RECURSIVE SplitOn(_, _)
SplitOn(text, sep) ==
    IF \A i \in 1..Len(text) : text[i] # sep THEN <<text>>
    ELSE LET k == CHOOSE i \in 1..Len(text) :
                      text[i] = sep /\ \A j \in 1..(i - 1) : text[j] # sep
         IN <<SubSeq(text, 1, k - 1)>> \o SplitOn(SubSeq(text, k + 1, Len(text)), sep)

NonBlankLines(text) == SelectSeq(SplitOn(text, LF), LAMBDA l : l # <<>>)

Max(a, b) == IF a >= b THEN a ELSE b

\* decimal digits of a small natural number, as text
Digits(n) == IF n < 10 THEN <<48 + n>> ELSE <<48 + (n \div 10), 48 + (n % 10)>>

\* "Unnamed: i", the name pandas gives an empty header field at position i
UnnamedColumn(i) == <<85, 110, 110, 97, 109, 101, 100, 58, 32>> \o Digits(i)

\* pandas makes repeated header names distinct: a, a.1, a.2, ...
MangleDupes(names) ==
    [i \in 1..Len(names) |->
        LET k == Cardinality({j \in 1..(i - 1) : names[j] = names[i]})
        IN IF k = 0 THEN names[i] ELSE names[i] \o <<46>> \o Digits(k)]

HeaderNames(line) ==
    LET raw == SplitOn(line, COMMA)
    IN MangleDupes([i \in 1..Len(raw) |->
                       IF raw[i] = <<>> THEN UnnamedColumn(i - 1) ELSE raw[i]])

\* a missing value (NaN) is written as the one-element text <<-1>>
NaN == <<-1>>

Cell(field) == IF field = <<>> THEN NaN ELSE field

PadRow(fields, width) ==
    [i \in 1..width |-> IF i <= Len(fields) THEN Cell(fields[i]) ELSE NaN]

\* [error, columns, rows]: error is "" or the name of the exception raised
ParseCsv(text) ==
    LET lines == NonBlankLines(text)
    IN IF lines = <<>>
       THEN [error |-> "EmptyDataError", columns |-> <<>>, rows |-> <<>>]
       ELSE LET header == HeaderNames(lines[1])
                data == [i \in 1..(Len(lines) - 1) |-> SplitOn(lines[i + 1], COMMA)]
                width == IF data = <<>> THEN Len(header)
                         ELSE Max(Len(header), Len(data[1]))
            IN IF \E i \in 2..Len(data) : Len(data[i]) > width
               THEN [error |-> "ParserError", columns |-> <<>>, rows |-> <<>>]
               ELSE [error |-> "",
                     columns |-> header,
                     rows |-> [i \in 1..Len(data) |-> PadRow(data[i], width)]]

(***************************************************************************)
(* Column-name normalization (normalize_string, normalize_column_names).   *)
(* The Unicode tables cover the characters the model's inputs can hold.    *)
(***************************************************************************)
\* canonical decomposition (NFD) of one character
Decomp(cp) ==
    CASE cp = 192 -> <<65, 768>>      \* A grave
      [] cp = 193 -> <<65, 769>>      \* A acute
      [] cp = 195 -> <<65, 771>>      \* A tilde
      [] cp = 199 -> <<67, 807>>      \* C cedilla
      [] cp = 231 -> <<99, 807>>      \* c cedilla
      [] cp = 233 -> <<101, 769>>     \* e acute
      [] OTHER -> <<cp>>

Nfd(text) == Flatten([i \in 1..Len(text) |-> Decomp(text[i])])

\* category Mn: the combining diacritical marks U+0300..U+036F
IsMn(cp) == cp >= 768 /\ cp <= 879

\* str.isspace(), which both str.strip() and the pattern \s use
SpaceChars == {9, 10, 11, 12, 13, 28, 29, 30, 31, 32, 133, 160}

\* letters beyond Latin-1 that the inputs use (Cyrillic zhe, upper and lower)
OtherLetters == {1046, 1078}

\* the pattern \w on str: Unicode alphanumerics and the underscore
IsWord(cp) ==
    \/ cp >= 48 /\ cp <= 57
    \/ cp >= 65 /\ cp <= 90
    \/ cp >= 97 /\ cp <= 122
    \/ cp = UNDERSCORE
    \/ cp \in {170, 178, 179, 181, 185, 186, 188, 189, 190}
    \/ cp >= 192 /\ cp <= 255 /\ cp \notin {215, 247}
    \/ cp \in OtherLetters

Lower(cp) ==
    IF cp >= 65 /\ cp <= 90 THEN cp + 32
    ELSE IF cp >= 192 /\ cp <= 222 /\ cp # 215 THEN cp + 32
    ELSE IF cp = 1046 THEN 1078
    ELSE cp

\* str.strip(chars): drop the leading and trailing characters that are in S
Strip(text, S) ==
    LET keep == {i \in 1..Len(text) : text[i] \notin S}
    IN IF keep = {} THEN <<>>
       ELSE SubSeq(text,
                   CHOOSE i \in keep : \A j \in keep : i <= j,
                   CHOOSE i \in keep : \A j \in keep : i >= j)

\* re.sub of a one-or-more pattern: each maximal run of characters of S
\* becomes one repl
RECURSIVE SubRuns(_, _, _)
SubRuns(text, S, repl) ==
    IF text = <<>> THEN <<>>
    ELSE IF Head(text) \in S
         THEN IF Len(text) >= 2 /\ text[2] \in S
              THEN SubRuns(Tail(text), S, repl)
              ELSE <<repl>> \o SubRuns(Tail(text), S, repl)
         ELSE <<Head(text)>> \o SubRuns(Tail(text), S, repl)

\* 'coluna_sem_nome'
Placeholder == <<99, 111, 108, 117, 110, 97, 95, 115, 101, 109, 95, 110, 111, 109, 101>>

normalize_string(text) ==
    LET normalized == Nfd(text)
        without_accents == SelectSeq(normalized, LAMBDA c : ~IsMn(c))
        c1 == SubRuns(Strip(without_accents, SpaceChars), SpaceChars, UNDERSCORE)
        c2 == [i \in 1..Len(c1) |-> IF IsWord(c1[i]) THEN c1[i] ELSE UNDERSCORE]
        c3 == SubRuns(c2, {UNDERSCORE}, UNDERSCORE)
        c4 == Strip(c3, {UNDERSCORE})
        cleaned == [i \in 1..Len(c4) |-> Lower(c4[i])]
    IN IF cleaned = <<>> THEN Placeholder ELSE cleaned

RECURSIVE NormalizeLoop(_, _, _)

\* the loop without the increment of column_counts: every repeated name
\* gets the suffix _1
NormalizeLoopWithoutIncrement(cols, column_counts, normalized_columns) ==
    IF cols = <<>> THEN normalized_columns
    ELSE IF normalize_string(Head(cols)) \in DOMAIN column_counts
    THEN NormalizeLoop(Tail(cols), column_counts,
                       Append(normalized_columns,
                              normalize_string(Head(cols)) \o <<UNDERSCORE>> \o Digits(1)))
    ELSE NormalizeLoop(Tail(cols), column_counts @@ (normalize_string(Head(cols)) :> 0),
                       Append(normalized_columns, normalize_string(Head(cols))))

NormalizeLoop(cols, column_counts, normalized_columns) ==
    IF cols = <<>> THEN normalized_columns
    ELSE LET normalized_col == normalize_string(Head(cols))
         IN IF normalized_col \in DOMAIN column_counts
            THEN LET n == column_counts[normalized_col] + 1
                 IN NormalizeLoop(Tail(cols),
                                  [column_counts EXCEPT ![normalized_col] = n],
                                  Append(normalized_columns,
                                         normalized_col \o <<UNDERSCORE>> \o Digits(n)))
            ELSE NormalizeLoop(Tail(cols),
                               column_counts @@ (normalized_col :> 0),
                               Append(normalized_columns, normalized_col))

\* the column names of the table returned for a table with columns cols
normalize_column_names(cols) == NormalizeLoop(cols, <<>>, <<>>)

\* the same without df.copy(): the new names are set on the table passed in
normalize_column_names_in_place(cols) ==
    [df |-> normalize_column_names(cols), df_normalized |-> normalize_column_names(cols)]

\* one call on a table with columns cols: df holds the column names of the
\* table passed in as the call leaves them, df_normalized those of the
\* table returned
normalize_column_names_df(cols) ==
    [df |-> cols, df_normalized |-> normalize_column_names(cols)]

(***************************************************************************)
(* The file system as the pipeline sees it.  fs = [exists, files]: exists  *)
(* says whether DATA_DIR is a directory; files maps the file names that    *)
(* os.path.join(DATA_DIR, name) reaches to their contents.  A name with    *)
(* dir = "" lies directly in DATA_DIR, one with dir = ".." lies in its     *)
(* parent, any other dir is a subdirectory of DATA_DIR (the pipeline       *)
(* creates none, so such a parent never exists).                           *)
(* An operation that can raise returns raised = TRUE with the file system  *)
(* as the failed call left it.                                             *)
(***************************************************************************)
Restrict(f, S) == [x \in S |-> f[x]]

Inside(fs) == {fn \in DOMAIN fs.files : fn.dir # ".."}

Outside(fs) == {fn \in DOMAIN fs.files : fn.dir = ".."}

\* os.path.exists(os.path.join(DATA_DIR, filename))
path_exists(fs, filename) == fs.exists /\ filename \in DOMAIN fs.files

\* the directory that holds DATA_DIR/filename exists
parent_exists(fs, filename) == fs.exists /\ filename.dir \in {"", ".."}

\* shutil.rmtree(DATA_DIR); when it fails the files of kept are still there
rmtree(fs, fault, kept) ==
    IF fault
    THEN [fs |-> [exists |-> TRUE,
                  files |-> Restrict(fs.files, Outside(fs) \cup (kept \cap Inside(fs)))],
          raised |-> TRUE]
    ELSE [fs |-> [exists |-> FALSE, files |-> Restrict(fs.files, Outside(fs))],
          raised |-> FALSE]

\* os.makedirs(DATA_DIR, exist_ok=True)
makedirs(fs, fault) ==
    IF fs.exists THEN [fs |-> fs, raised |-> FALSE]
    ELSE IF fault THEN [fs |-> fs, raised |-> TRUE]
    ELSE [fs |-> [fs EXCEPT !.exists = TRUE], raised |-> FALSE]

\* os.remove(file_path)
os_remove(fs, filename, fault) ==
    IF fault \/ ~path_exists(fs, filename) THEN [fs |-> fs, raised |-> TRUE]
    ELSE [fs |-> [fs EXCEPT !.files = Restrict(fs.files, DOMAIN fs.files \ {filename})],
          raised |-> FALSE]

\* with open(file_path, 'wb') as f: f.write(file_content)
\* fault "open": open raises and the path is untouched; fault "write": the
\* file is created (truncated) and write raises
write_file(fs, filename, file_content, fault) ==
    IF ~parent_exists(fs, filename) \/ fault = "open"
    THEN [fs |-> fs, raised |-> TRUE]
    ELSE IF fault = "write"
    THEN [fs |-> [fs EXCEPT !.files = (filename :> <<>>) @@ fs.files], raised |-> TRUE]
    ELSE [fs |-> [fs EXCEPT !.files = (filename :> file_content) @@ fs.files],
          raised |-> FALSE]

(***************************************************************************)
(* DataFileProcessor: directory lifecycle.  f holds the faults of the      *)
(* call: f.rmtree, f.makedirs (BOOLEAN), f.kept (files a failing rmtree    *)
(* leaves).  atexit is the number of registered exit handlers.  caught     *)
(* says the except branch ran, raised that an exception left the call.     *)
(***************************************************************************)
\* initialize_data_directory without the os.makedirs call taking effect
initialized_not_recreated(atexit, r1, r2) ==
    IF r1.raised \/ r2.raised
    THEN [fs |-> r1.fs, atexit |-> atexit, caught |-> TRUE, raised |-> FALSE]
    ELSE [fs |-> r1.fs, atexit |-> atexit + 1, caught |-> FALSE, raised |-> FALSE]

\* initialize_data_directory once rmtree (r1) and makedirs (r2) ended
initialized(atexit, r1, r2) ==
    IF r1.raised
    THEN [fs |-> r1.fs, atexit |-> atexit, caught |-> TRUE, raised |-> FALSE]
    ELSE IF r2.raised
    THEN [fs |-> r2.fs, atexit |-> atexit, caught |-> TRUE, raised |-> FALSE]
    ELSE [fs |-> r2.fs, atexit |-> atexit + 1, caught |-> FALSE, raised |-> FALSE]

\* initialize_data_directory without the removal of an existing directory
initialize_rmtree_skipped(fs, f) == [fs |-> fs, raised |-> FALSE]

\* what the rmtree of initialize_data_directory leaves
initialize_rmtree(fs, f) ==
    IF fs.exists THEN rmtree(fs, f.rmtree, f.kept) ELSE [fs |-> fs, raised |-> FALSE]

initialize_data_directory(fs, atexit, f) ==
    initialized(atexit, initialize_rmtree(fs, f),
                makedirs(initialize_rmtree(fs, f).fs, f.makedirs))

\* cleanup_data_directory without its except branch
cleaned_up_uncaught(r) == [fs |-> r.fs, caught |-> FALSE, raised |-> r.raised]

\* cleanup_data_directory once rmtree ended with r
cleaned_up(r) == [fs |-> r.fs, caught |-> r.raised, raised |-> FALSE]

cleanup_data_directory(fs, f) ==
    IF fs.exists THEN cleaned_up(rmtree(fs, f.rmtree, f.kept))
    ELSE [fs |-> fs, caught |-> FALSE, raised |-> FALSE]

\* failing: the names whose os.remove raises
RECURSIVE cleanup_specific_files(_, _, _)

\* the loop without its try / except: the first failing os.remove ends it
cleanup_specific_files_without_except(fs, filenames, failing) ==
    IF filenames = <<>> THEN [fs |-> fs, raised |-> FALSE]
    ELSE IF path_exists(fs, Head(filenames)) /\ Head(filenames) \in failing
    THEN [fs |-> fs, raised |-> TRUE]
    ELSE IF path_exists(fs, Head(filenames))
    THEN cleanup_specific_files(os_remove(fs, Head(filenames), FALSE).fs,
                                Tail(filenames), failing)
    ELSE cleanup_specific_files(fs, Tail(filenames), failing)

\* the removal done with shutil.rmtree(DATA_DIR) instead of file by file
cleanup_specific_files_rmtree(fs, filenames, failing) ==
    IF filenames = <<>> THEN [fs |-> fs, raised |-> FALSE]
    ELSE [fs |-> rmtree(fs, FALSE, {}).fs, raised |-> FALSE]

cleanup_specific_files(fs, filenames, failing) ==
    IF filenames = <<>> THEN [fs |-> fs, raised |-> FALSE]
    ELSE IF path_exists(fs, Head(filenames)) /\ Head(filenames) \notin failing
    THEN cleanup_specific_files(os_remove(fs, Head(filenames), FALSE).fs,
                                Tail(filenames), failing)
    ELSE cleanup_specific_files(fs, Tail(filenames), failing)

\* the listing without the os.path.isfile test: what lies in a
\* sub-directory is listed too
get_data_directory_info_without_isfile(fs, fault) ==
    LET listed == IF fs.exists /\ ~fault THEN Inside(fs) ELSE {}
        order == SetToSeq(listed)
    IN [exists |-> fs.exists,
        files |-> {[name |-> fn, size |-> Len(fs.files[fn])] : fn \in listed},
        total_size |-> SeqSum([i \in DOMAIN order |-> Len(fs.files[order[i]])])]

\* [exists, files, total_size]: files holds a [name, size] record for each
\* regular file directly inside DATA_DIR; sizes are in bytes (the code
\* divides each by 1024 * 1024)
get_data_directory_info(fs, fault) ==
    LET listed == IF fs.exists /\ ~fault THEN {fn \in Inside(fs) : fn.dir = ""} ELSE {}
        order == SetToSeq(listed)
    IN [exists |-> fs.exists,
        files |-> {[name |-> fn, size |-> Len(fs.files[fn])] : fn \in listed},
        total_size |-> SeqSum([i \in DOMAIN order |-> Len(fs.files[order[i]])])]

\* one call of get_data_directory_info: the loop over os.listdir is inside
\* try / except, what is outside it does not raise
directory_info_call(fs, fault) ==
    [info |-> get_data_directory_info(fs, fault), raised |-> FALSE]

(***************************************************************************)
(* DataFileProcessor.read_csv_file.                                        *)
(***************************************************************************)
\* Python's None
None == [none |-> TRUE]

\* the candidate list with its first two entries exchanged
encodings_latin1_first == <<"latin-1", "utf-8", "cp1252", "iso-8859-1">>

encodings == <<"utf-8", "latin-1", "cp1252", "iso-8859-1">>

\* pd.read_csv(io.BytesIO(file_content), encoding=encoding)
pd_read_csv(file_content, encoding) ==
    LET d == Decode(file_content, encoding)
    IN IF d.ok THEN ParseCsv(d.text)
       ELSE [error |-> "UnicodeDecodeError", columns |-> <<>>, rows |-> <<>>]

\* pd.read_csv(io.BytesIO(file_content), encoding='utf-8', errors='ignore'):
\* read_csv has no parameter named errors, the call raises TypeError
pd_read_csv_errors_ignore(file_content) ==
    [error |-> "TypeError", columns |-> <<>>, rows |-> <<>>]

\* the table a parse gives once its column names are normalized
Table(parsed) ==
    [columns |-> normalize_column_names(parsed.columns), rows |-> parsed.rows]

\* the for loop over encodings from position i on, then the fallback:
\* [error, df, encoding, tried]; tried lists the encodings attempted, in order
RECURSIVE try_encodings(_, _, _)

\* the body of the loop once pd.read_csv returned or raised p
RECURSIVE loop_body(_, _, _, _)
loop_body(file_content, i, tried, p) ==
    IF p.error = "UnicodeDecodeError" THEN try_encodings(file_content, i + 1, tried)
    ELSE IF p.error = ""
    THEN [error |-> "", df |-> Table(p), encoding |-> encodings[i], tried |-> tried]
    ELSE [error |-> p.error, df |-> None, encoding |-> encodings[i], tried |-> tried]

\* the statements after the loop, p being what the lossy read_csv call gave
fallback(tried, p) ==
    IF p.error = ""
    THEN [error |-> "", df |-> Table(p), encoding |-> "fallback", tried |-> tried]
    ELSE [error |-> p.error, df |-> None, encoding |-> "fallback", tried |-> tried]

try_encodings(file_content, i, tried) ==
    IF i > Len(encodings)
    THEN fallback(tried, pd_read_csv_errors_ignore(file_content))
    ELSE loop_body(file_content, i, Append(tried, encodings[i]),
                   pd_read_csv(file_content, encodings[i]))

\* read_csv_file without its try / except: the exception leaves the call
read_csv_except_reraises(fs, filename, has_path, remove_fault, steps) ==
    [fs |-> fs, df |-> None, file_path |-> None, encoding |-> "none",
     reported |-> FALSE, raised |-> TRUE, steps |-> steps]

\* the except branch without the removal of the stored file
read_csv_except_keeps_file(fs, filename, has_path, remove_fault, steps) ==
    [fs |-> fs, df |-> None, file_path |-> None, encoding |-> "none",
     reported |-> TRUE, raised |-> FALSE, steps |-> steps]

\* the except branch of read_csv_file; has_path: file_path was assigned
read_csv_except(fs, filename, has_path, remove_fault, steps) ==
    IF has_path /\ path_exists(fs, filename)
    THEN [fs |-> IF remove_fault THEN fs ELSE os_remove(fs, filename, FALSE).fs,
          df |-> None, file_path |-> None, encoding |-> "none",
          reported |-> TRUE, raised |-> FALSE, steps |-> Append(steps, "remove")]
    ELSE [fs |-> fs, df |-> None, file_path |-> None, encoding |-> "none",
          reported |-> TRUE, raised |-> FALSE, steps |-> steps]

\* read_csv_file from the parsing on; t is the outcome of the attempts
read_csv_parsed(fs, filename, f, t) ==
    IF t.error # ""
    THEN read_csv_except(fs, filename, TRUE, f.remove,
                         <<"write">> \o [i \in 1..Len(t.tried) |-> "read_csv"]
                             \o (IF t.encoding = "fallback" THEN <<"read_csv">> ELSE <<>>))
    ELSE [fs |-> fs, df |-> t.df, file_path |-> filename, encoding |-> t.encoding,
          reported |-> FALSE, raised |-> FALSE,
          steps |-> <<"write">> \o [i \in 1..Len(t.tried) |-> "read_csv"]]

\* read_csv_file once the file was opened and written, w being the outcome
read_csv_written(file_content, filename, f, w) ==
    IF w.raised THEN read_csv_except(w.fs, filename, TRUE, f.remove, <<"write">>)
    ELSE read_csv_parsed(w.fs, filename, f, try_encodings(file_content, 1, <<>>))

\* read_csv_file once os.makedirs returned or raised, m being the outcome
read_csv_made(file_content, filename, f, m) ==
    IF m.raised THEN read_csv_except(m.fs, filename, FALSE, f.remove, <<>>)
    ELSE read_csv_written(file_content, filename, f,
                          write_file(m.fs, filename, file_content, f.write))

\* f.makedirs, f.remove: BOOLEAN; f.write: "none", "open" or "write".
\* Returns [fs, df, file_path, encoding, reported, raised, steps]; steps
\* lists the calls made, in order: "write" (the open and write of the
\* file), "read_csv" once per parsing attempt, "remove" when the except
\* branch deletes the file
read_csv_file(fs, file_content, filename, f) ==
    read_csv_made(file_content, filename, f, makedirs(fs, f.makedirs))

(***************************************************************************)
(* DataFileProcessor.process_zip_file.  An archive is [valid, entries];    *)
(* an entry is [filename, is_dir, readable, content], readable = FALSE for *)
(* a member whose bytes zip_ref.read cannot return (bad CRC).              *)
(***************************************************************************)
LowerExt(ext) == IF ext = "CSV" THEN "csv" ELSE ext

\* filename.lower().split('.')[-1]
file_extension(filename) == LowerExt(filename.ext)

\* data_dir.glob('*.csv'): the pattern is matched with the case rules of the
\* platform's paths, exact on POSIX and case-blind on Windows
glob_csv(fs, case_sensitive) ==
    {fn \in Inside(fs) : /\ fn.dir = ""
                         /\ IF case_sensitive THEN fn.ext = "csv"
                                              ELSE LowerExt(fn.ext) = "csv"}

\* ListAvailableCSVsTool._run(DATA_DIR): the names the answer lists
list_available_csvs(fs, case_sensitive) ==
    IF ~fs.exists THEN {} ELSE glob_csv(fs, case_sensitive)

\* the loop over zip_ref.infolist(): [fs, datasets, warnings]
RECURSIVE zip_entries(_, _, _, _, _)

\* the rest of the loop once read_csv_file returned r for the first entry
RECURSIVE zip_entry_read(_, _, _, _, _)
zip_entry_read(entries, datasets, warnings, f, r) ==
    IF r.raised THEN zip_entries(r.fs, Tail(entries), datasets, warnings + 1, f)
    ELSE IF r.df # None /\ r.file_path # None
    THEN zip_entries(r.fs, Tail(entries),
                     (Head(entries).filename :> [df |-> r.df, file_path |-> r.file_path])
                         @@ datasets,
                     warnings, f)
    ELSE zip_entries(r.fs, Tail(entries), datasets, warnings, f)

\* the loop without the try / except around one member: a member that
\* cannot be read ends the loop
zip_entries_without_inner_except(fs, entries, datasets, warnings, f) ==
    IF entries = <<>> THEN [fs |-> fs, datasets |-> datasets, warnings |-> warnings]
    ELSE IF Head(entries).is_dir \/ file_extension(Head(entries).filename) # "csv"
    THEN zip_entries(fs, Tail(entries), datasets, warnings, f)
    ELSE IF ~Head(entries).readable
    THEN [fs |-> fs, datasets |-> datasets, warnings |-> warnings]
    ELSE zip_entry_read(entries, datasets, warnings, f,
                        read_csv_file(fs, Head(entries).content,
                                      Head(entries).filename, f))

zip_entries(fs, entries, datasets, warnings, f) ==
    IF entries = <<>> THEN [fs |-> fs, datasets |-> datasets, warnings |-> warnings]
    ELSE IF Head(entries).is_dir \/ file_extension(Head(entries).filename) # "csv"
    THEN zip_entries(fs, Tail(entries), datasets, warnings, f)
    ELSE IF ~Head(entries).readable
    THEN zip_entries(fs, Tail(entries), datasets, warnings + 1, f)
    ELSE zip_entry_read(entries, datasets, warnings, f,
                        read_csv_file(fs, Head(entries).content,
                                      Head(entries).filename, f))

\* process_zip_file once the loop ended with z
zip_result(z) ==
    [fs |-> z.fs, datasets |-> z.datasets, warnings |-> z.warnings,
     reported |-> FALSE, raised |-> FALSE]

\* process_zip_file without the try / except around the archive: the
\* BadZipFile of zipfile.ZipFile leaves the call
process_zip_file_without_outer_except(fs, zip, f) ==
    IF ~zip.valid
    THEN [fs |-> fs, datasets |-> <<>>, warnings |-> 0, reported |-> FALSE,
          raised |-> TRUE]
    ELSE zip_result(zip_entries(fs, zip.entries, <<>>, 0, f))

process_zip_file(fs, zip, f) ==
    IF ~zip.valid
    THEN [fs |-> fs, datasets |-> <<>>, warnings |-> 0, reported |-> TRUE,
          raised |-> FALSE]
    ELSE zip_result(zip_entries(fs, zip.entries, <<>>, 0, f))

(***************************************************************************)
(* Inputs of the session specification.                                    *)
(***************************************************************************)
FileName(dir, stem, ext) == [dir |-> dir, stem |-> stem, ext |-> ext]

x_csv == FileName("", "x", "csv")
y_CSV == FileName("", "y", "CSV")
notes_txt == FileName("", "notes", "txt")
sub_z_csv == FileName("sub", "z", "csv")
up_w_csv == FileName("..", "w", "csv")
a_zip == FileName("", "a", "zip")
b_zip == FileName("", "b", "zip")

\* "a\n": one column, no row, plain ASCII
AsciiCsv == <<97, 10>>
\* no line at all: read_csv raises EmptyDataError
EmptyCsv == <<>>

SampleContents == {AsciiCsv, EmptyCsv}

\* what st.file_uploader(type=['csv'], accept_multiple_files=True) hands over
UploadedFile(name, content) == [name |-> name, content |-> content]

UploadLists ==
    {<<UploadedFile(n, c)>> : n \in {x_csv, y_CSV}, c \in SampleContents}
    \cup {<<UploadedFile(x_csv, EmptyCsv), UploadedFile(y_CSV, AsciiCsv)>>}

ZipEntry(filename, is_dir, readable, content) ==
    [filename |-> filename, is_dir |-> is_dir, readable |-> readable, content |-> content]

\* bytes that are no ZIP archive
BadZip == [valid |-> FALSE, entries |-> <<>>]

\* sub/, sub/z.csv, ../w.csv, notes.txt, x.csv, and y.CSV with a bad CRC
MixedZip ==
    [valid |-> TRUE,
     entries |-> <<ZipEntry(FileName("sub", "", ""), TRUE, TRUE, <<>>),
                   ZipEntry(sub_z_csv, FALSE, TRUE, AsciiCsv),
                   ZipEntry(up_w_csv, FALSE, TRUE, AsciiCsv),
                   ZipEntry(notes_txt, FALSE, TRUE, AsciiCsv),
                   ZipEntry(x_csv, FALSE, TRUE, AsciiCsv),
                   ZipEntry(y_CSV, FALSE, FALSE, AsciiCsv)>>]

\* an archive whose only CSV entry does not parse
EmptyEntryZip == [valid |-> TRUE, entries |-> <<ZipEntry(x_csv, FALSE, TRUE, EmptyCsv)>>]

UploadedZips ==
    {[name |-> a_zip, zip |-> MixedZip], [name |-> b_zip, zip |-> BadZip],
     [name |-> b_zip, zip |-> EmptyEntryZip]}

NoFs == [exists |-> FALSE, files |-> <<>>]

\* the faults one lifecycle call can meet on fs
LifecycleFaults(fs) ==
    {[rmtree |-> FALSE, makedirs |-> m, kept |-> {}] : m \in BOOLEAN}
    \cup {[rmtree |-> TRUE, makedirs |-> FALSE, kept |-> k] : k \in SUBSET Inside(fs)}

NoLifecycleFault == [rmtree |-> FALSE, makedirs |-> FALSE, kept |-> {}]

\* the faults one read_csv_file call can meet
IngestFault(makedirs_fails, write, remove_fails) ==
    [makedirs |-> makedirs_fails, write |-> write, remove |-> remove_fails]

IngestFaults ==
    {IngestFault(FALSE, w, r) : w \in {"none", "open", "write"}, r \in BOOLEAN}
    \cup {IngestFault(TRUE, "none", FALSE)}

NoIngestFault == [makedirs |-> FALSE, write |-> "none", remove |-> FALSE]

(***************************************************************************)
(* AgentInterface: the session handlers, as functions of the file system   *)
(* and of the session state ss = [datasets, data_files, processed_files].  *)
(***************************************************************************)
InSeq(e, q) == \E i \in 1..Len(q) : q[i] = e

\* the loop of process_individual_files; calls lists the names read_csv_file
\* was called with
RECURSIVE process_individual_files(_, _, _, _, _)

\* the rest of the loop once read_csv_file returned r for the first file
RECURSIVE uploaded_file_read(_, _, _, _, _)
uploaded_file_read(ss, uploaded_files, f, calls, r) ==
    IF r.df # None /\ r.file_path # None
    THEN process_individual_files(
             r.fs,
             [datasets |-> (Head(uploaded_files).name :> r.df) @@ ss.datasets,
              data_files |-> (Head(uploaded_files).name :> r.file_path) @@ ss.data_files,
              processed_files |-> Append(ss.processed_files, Head(uploaded_files).name)],
             Tail(uploaded_files), f, calls)
    ELSE process_individual_files(r.fs, ss, Tail(uploaded_files), f, calls)

process_individual_files(fs, ss, uploaded_files, f, calls) ==
    IF uploaded_files = <<>> THEN [fs |-> fs, ss |-> ss, calls |-> calls]
    ELSE IF InSeq(Head(uploaded_files).name, ss.processed_files)
            \/ file_extension(Head(uploaded_files).name) # "csv"
    THEN process_individual_files(fs, ss, Tail(uploaded_files), f, calls)
    ELSE uploaded_file_read(ss, uploaded_files, f,
                            Append(calls, Head(uploaded_files).name),
                            read_csv_file(fs, Head(uploaded_files).content,
                                          Head(uploaded_files).name, f))

\* AgentInterface.process_zip_file once DataFileProcessor.process_zip_file
\* returned r
uploaded_zip_read(ss, uploaded_zip, r) ==
    IF DOMAIN r.datasets = {}
    THEN [fs |-> r.fs, ss |-> ss, called |-> TRUE]
    ELSE [fs |-> r.fs,
          ss |-> [datasets |-> [n \in DOMAIN r.datasets |-> r.datasets[n].df]
                                   @@ ss.datasets,
                  data_files |-> [n \in DOMAIN r.datasets |-> r.datasets[n].file_path]
                                     @@ ss.data_files,
                  processed_files |-> Append(ss.processed_files, uploaded_zip.name)],
          called |-> TRUE]

\* AgentInterface.process_zip_file without the test on processed_files
ui_process_zip_file_rereading(fs, ss, uploaded_zip, f) ==
    uploaded_zip_read(ss, uploaded_zip, process_zip_file(fs, uploaded_zip.zip, f))

\* AgentInterface.process_zip_file
ui_process_zip_file(fs, ss, uploaded_zip, f) ==
    IF InSeq(uploaded_zip.name, ss.processed_files)
    THEN [fs |-> fs, ss |-> ss, called |-> FALSE]
    ELSE uploaded_zip_read(ss, uploaded_zip, process_zip_file(fs, uploaded_zip.zip, f))

\* AgentInterface.clear_all_datasets; failing: the names whose removal fails
clear_all_datasets(fs, ss, failing) ==
    [fs |-> IF DOMAIN ss.data_files # {}
            THEN cleanup_specific_files(fs, SetToSeq(DOMAIN ss.data_files), failing).fs
            ELSE fs,
     ss |-> [datasets |-> <<>>, data_files |-> <<>>, processed_files |-> <<>>],
     raised |-> FALSE]

\* the 'clear data directory' button once cleanup_data_directory returned c
\* and initialize_data_directory, called on what it left, returned i
data_directory_cleared(atexit, c, i) ==
    IF c.raised
    THEN [fs |-> c.fs, atexit |-> atexit, mid |-> c.fs, cleanup_caught |-> c.caught,
          init_ran |-> FALSE, init_caught |-> FALSE, raised |-> TRUE]
    ELSE [fs |-> i.fs, atexit |-> i.atexit, mid |-> c.fs, cleanup_caught |-> c.caught,
          init_ran |-> TRUE, init_caught |-> i.caught, raised |-> i.raised]

\* the 'clear data directory' button of render_data_directory_info
clear_data_directory(fs, atexit, f1, f2) ==
    data_directory_cleared(
        atexit, cleanup_data_directory(fs, f1),
        initialize_data_directory(cleanup_data_directory(fs, f1).fs, atexit, f2))

(***************************************************************************)
(* State.                                                                  *)
(***************************************************************************)
VARIABLES
    fs,               \* the file system: [exists, files]
    atexit_handlers,  \* how many times cleanup_data_directory is registered
    setup_cached,     \* st.cache_resource holds setup_data_directory's result
    phase,            \* "running", or "exiting" once the interpreter shuts down
    teardown_runs,    \* calls of cleanup_data_directory made by atexit
    datasets,         \* st.session_state.datasets
    data_files,       \* st.session_state.data_files
    processed_files,  \* st.session_state.processed_files
    last,             \* the last handler run and what it did
    first_init,       \* how the first initialize_data_directory call ended
    probe             \* read_csv_file specification: one call and its result

vars == <<fs, atexit_handlers, setup_cached, phase, teardown_runs, datasets,
          data_files, processed_files, last, first_init, probe>>

session == [datasets |-> datasets, data_files |-> data_files,
            processed_files |-> processed_files]

\* the directory part of a file system: what initialize and teardown act on
DirState(f) == [exists |-> f.exists, files |-> Restrict(f.files, Inside(f))]

EmptyDir == [exists |-> TRUE, files |-> <<>>]

\* DATA_DIR as a process may find it at start: absent, empty, or holding a
\* file of an earlier run
StartFileSystems == {NoFs, EmptyDir, [exists |-> TRUE, files |-> (x_csv :> AsciiCsv)]}

\* last: op names the handler; called lists the names read_csv_file was
\* called with; init_ran / cleanup_ran say which lifecycle calls the handler
\* made, init_files how many files DATA_DIR held when initialize began
Last(op, called, cleanup_ran, cleanup_caught, init_ran, init_caught, init_files, raised) ==
    [op |-> op, called |-> called, cleanup_ran |-> cleanup_ran,
     cleanup_caught |-> cleanup_caught, init_ran |-> init_ran,
     init_caught |-> init_caught, init_files |-> init_files, raised |-> raised]

NoProbe == [stage |-> "off"]

Init ==
    /\ fs \in StartFileSystems
    /\ atexit_handlers = 0
    /\ setup_cached = FALSE
    /\ phase = "running"
    /\ teardown_runs = 0
    /\ datasets = <<>>
    /\ data_files = <<>>
    /\ processed_files = <<>>
    /\ last = Last("none", <<>>, FALSE, FALSE, FALSE, FALSE, 0, FALSE)
    /\ first_init = None
    /\ probe = NoProbe

SetSession(ss) ==
    /\ datasets' = ss.datasets
    /\ data_files' = ss.data_files
    /\ processed_files' = ss.processed_files

\* AgentInterface.__init__: setup_data_directory runs once per process
StartupDone(r) ==
    /\ fs' = r.fs
    /\ atexit_handlers' = r.atexit
    /\ first_init' = [dir |-> DirState(r.fs), caught |-> r.caught]
    /\ last' = Last("startup", <<>>, FALSE, FALSE, TRUE, r.caught,
                    Cardinality(Inside(fs)), r.raised)

Startup ==
    /\ phase = "running" /\ ~setup_cached
    /\ \E f \in LifecycleFaults(fs) :
          StartupDone(initialize_data_directory(fs, atexit_handlers, f))
    /\ setup_cached' = TRUE
    /\ UNCHANGED <<phase, teardown_runs, datasets, data_files, processed_files, probe>>

ProcessIndividualFilesDone(r) ==
    /\ fs' = r.fs
    /\ SetSession(r.ss)
    /\ last' = Last("upload_csv", r.calls, FALSE, FALSE, FALSE, FALSE, 0, FALSE)

ProcessIndividualFiles ==
    /\ phase = "running" /\ setup_cached
    /\ \E uploaded_files \in UploadLists, f \in IngestFaults :
          ProcessIndividualFilesDone(
              process_individual_files(fs, session, uploaded_files, f, <<>>))
    /\ UNCHANGED <<atexit_handlers, setup_cached, phase, teardown_runs, first_init, probe>>

ProcessZipFileDone(uploaded_zip, r) ==
    /\ fs' = r.fs
    /\ SetSession(r.ss)
    /\ last' = Last("upload_zip", IF r.called THEN <<uploaded_zip.name>> ELSE <<>>,
                    FALSE, FALSE, FALSE, FALSE, 0, FALSE)

ProcessZipFile ==
    /\ phase = "running" /\ setup_cached
    /\ \E uploaded_zip \in UploadedZips, f \in IngestFaults :
          ProcessZipFileDone(uploaded_zip,
                             ui_process_zip_file(fs, session, uploaded_zip, f))
    /\ UNCHANGED <<atexit_handlers, setup_cached, phase, teardown_runs, first_init, probe>>

ClearAllDatasetsDone(r) ==
    /\ fs' = r.fs
    /\ SetSession(r.ss)
    /\ last' = Last("clear_all", <<>>, FALSE, FALSE, FALSE, FALSE, 0, r.raised)

\* the button is drawn only while datasets is not empty
ClearAllDatasets ==
    /\ phase = "running" /\ setup_cached
    /\ DOMAIN datasets # {}
    /\ \E failing \in SUBSET DOMAIN data_files :
          ClearAllDatasetsDone(clear_all_datasets(fs, session, failing))
    /\ UNCHANGED <<atexit_handlers, setup_cached, phase, teardown_runs, first_init, probe>>

ClearDataDirectoryDone(r) ==
    /\ fs' = r.fs
    /\ atexit_handlers' = r.atexit
    /\ last' = Last("clear_dir", <<>>, TRUE, r.cleanup_caught, r.init_ran,
                    r.init_caught, Cardinality(Inside(r.mid)), r.raised)

ClearDataDirectory ==
    /\ phase = "running" /\ setup_cached
    /\ atexit_handlers < MaxInit
    /\ \E f1 \in LifecycleFaults(fs) :
          \E f2 \in LifecycleFaults(cleanup_data_directory(fs, f1).fs) :
             ClearDataDirectoryDone(clear_data_directory(fs, atexit_handlers, f1, f2))
    /\ UNCHANGED <<setup_cached, phase, teardown_runs, datasets, data_files,
                   processed_files, first_init, probe>>

\* normal interpreter termination: atexit starts running its handlers
Exit ==
    /\ phase = "running"
    /\ phase' = "exiting"
    /\ last' = Last("exit", <<>>, FALSE, FALSE, FALSE, FALSE, 0, FALSE)
    /\ UNCHANGED <<fs, atexit_handlers, setup_cached, teardown_runs, datasets,
                   data_files, processed_files, first_init, probe>>

RunExitHandlerDone(r) ==
    /\ fs' = r.fs
    /\ last' = Last("atexit", <<>>, TRUE, r.caught, FALSE, FALSE, 0, r.raised)

\* atexit calls one registered handler: cleanup_data_directory
RunExitHandler ==
    /\ phase = "exiting" /\ atexit_handlers > 0
    /\ \E f \in LifecycleFaults(fs) : RunExitHandlerDone(cleanup_data_directory(fs, f))
    /\ atexit_handlers' = atexit_handlers - 1
    /\ teardown_runs' = teardown_runs + 1
    /\ UNCHANGED <<setup_cached, phase, datasets, data_files, processed_files,
                   first_init, probe>>

Next ==
    \/ Startup
    \/ ProcessIndividualFiles
    \/ ProcessZipFile
    \/ ClearAllDatasets
    \/ ClearDataDirectory
    \/ Exit
    \/ RunExitHandler

Spec == Init /\ [][Next]_vars

(***************************************************************************)
(* Specification of single read_csv_file calls: Init draws the arguments,  *)
(* the file system and the faults of one call, ReadCsvCall makes the call. *)
(***************************************************************************)
RECURSIVE SeqsUpTo(_, _)
SeqsUpTo(S, n) ==
    IF n = 0 THEN {<<>>}
    ELSE LET shorter == SeqsUpTo(S, n - 1)
         IN shorter \cup {Append(q, e) : q \in {t \in shorter : Len(t) = n - 1}, e \in S}

\* 'a', ',', line feed, and bytes above 127 that tell the encodings apart:
\* 0xE9 (e acute in Latin-1), 0xC3 0xA9 (e acute in UTF-8), 0x80 (the euro
\* sign in Windows-1252, a control character in Latin-1)
ByteAlphabet == {97, COMMA, LF, 233, 195, 169, 128}

RawContents == SeqsUpTo(ByteAlphabet, MaxLen)

\* the characters of the texts: a, e acute, A tilde, copyright, euro
CharAlphabet == {97, 233, 195, 169, 8364}

IsAscii(text) == \A i \in 1..Len(text) : text[i] < 128

\* a table of one column named a with one cell
CsvText(cell) == <<97, LF>> \o cell \o <<LF>>

Cells == {c \in SeqsUpTo(CharAlphabet, MaxCell) : c # <<>> /\ ~IsAscii(c)}

ProbeInput(content, filename, pre, f, cell, enc) ==
    [stage |-> "input", content |-> content, filename |-> filename, pre |-> pre,
     f |-> f, cell |-> cell, enc |-> enc]

ProbeInputs ==
    {ProbeInput(c, x_csv, EmptyDir, NoIngestFault, <<>>, "raw") : c \in RawContents}
    \cup {ProbeInput(Encode(CsvText(c), e).bytes, x_csv, EmptyDir, NoIngestFault, c, e) :
             c \in {d \in Cells : Encode(CsvText(d), "utf-8").ok}, e \in {"utf-8"}}
    \cup {ProbeInput(Encode(CsvText(c), e).bytes, x_csv, EmptyDir, NoIngestFault, c, e) :
             c \in {d \in Cells : Encode(CsvText(d), "latin-1").ok},
             e \in {"latin-1", "iso-8859-1"}}
    \cup {ProbeInput(Encode(CsvText(c), e).bytes, x_csv, EmptyDir, NoIngestFault, c, e) :
             c \in {d \in Cells : Encode(CsvText(d), "cp1252").ok}, e \in {"cp1252"}}
    \cup {ProbeInput(c, n, pre, f, <<>>, "raw") :
             c \in SampleContents \cup {<<233, LF>>},
             n \in {x_csv, y_CSV, sub_z_csv, up_w_csv},
             pre \in StartFileSystems,
             f \in IngestFaults}

InitReadCsv ==
    /\ probe \in ProbeInputs
    /\ fs = probe.pre
    /\ atexit_handlers = 0
    /\ setup_cached = FALSE
    /\ phase = "running"
    /\ teardown_runs = 0
    /\ datasets = <<>>
    /\ data_files = <<>>
    /\ processed_files = <<>>
    /\ last = Last("none", <<>>, FALSE, FALSE, FALSE, FALSE, 0, FALSE)
    /\ first_init = None

ReadCsvCallDone(r) ==
    /\ fs' = r.fs
    /\ probe' = [stage |-> "done", content |-> probe.content,
                 filename |-> probe.filename, pre |-> probe.pre, f |-> probe.f,
                 cell |-> probe.cell, enc |-> probe.enc,
                 df |-> r.df, file_path |-> r.file_path, encoding |-> r.encoding,
                 reported |-> r.reported, raised |-> r.raised, steps |-> r.steps]

ReadCsvCall ==
    /\ probe.stage = "input"
    /\ ReadCsvCallDone(read_csv_file(fs, probe.content, probe.filename, probe.f))
    /\ UNCHANGED <<atexit_handlers, setup_cached, phase, teardown_runs, datasets,
                   data_files, processed_files, last, first_init>>

NextReadCsv == ReadCsvCall

SpecReadCsv == InitReadCsv /\ [][NextReadCsv]_vars

(***************************************************************************)
(* The ingestion specification: one call of read_csv_file or of            *)
(* process_zip_file, on arguments drawn from the sets below.               *)
(***************************************************************************)
z_csv == FileName("", "z", "csv")

\* x.csv, y.CSV, notes.txt and z.csv, all readable and parseable
ThreeCsvZip ==
    [valid |-> TRUE,
     entries |-> <<ZipEntry(x_csv, FALSE, TRUE, AsciiCsv),
                   ZipEntry(y_CSV, FALSE, TRUE, AsciiCsv),
                   ZipEntry(notes_txt, FALSE, TRUE, AsciiCsv),
                   ZipEntry(z_csv, FALSE, TRUE, <<233, 10>>)>>]

\* a member with a bad CRC, then a valid one
CorruptFirstZip ==
    [valid |-> TRUE,
     entries |-> <<ZipEntry(x_csv, FALSE, FALSE, AsciiCsv),
                   ZipEntry(y_CSV, FALSE, TRUE, AsciiCsv)>>]

\* a valid member, then one with a bad CRC
CorruptLastZip ==
    [valid |-> TRUE,
     entries |-> <<ZipEntry(y_CSV, FALSE, TRUE, AsciiCsv),
                   ZipEntry(x_csv, FALSE, FALSE, AsciiCsv)>>]

\* a member that does not parse, between two valid ones
UnparseableMiddleZip ==
    [valid |-> TRUE,
     entries |-> <<ZipEntry(x_csv, FALSE, TRUE, AsciiCsv),
                   ZipEntry(z_csv, FALSE, TRUE, EmptyCsv),
                   ZipEntry(y_CSV, FALSE, TRUE, AsciiCsv)>>]

\* two members of the same name, the second of which does not parse
DuplicateNameZip ==
    [valid |-> TRUE,
     entries |-> <<ZipEntry(x_csv, FALSE, TRUE, AsciiCsv),
                   ZipEntry(x_csv, FALSE, TRUE, EmptyCsv)>>]

\* an archive with no member
EmptyZip == [valid |-> TRUE, entries |-> <<>>]

SampleZips ==
    {BadZip, MixedZip, EmptyEntryZip, ThreeCsvZip, CorruptFirstZip, CorruptLastZip,
     UnparseableMiddleZip, DuplicateNameZip, EmptyZip}

ZipProbeInput(zip, pre, f) == [stage |-> "zip_input", zip |-> zip, pre |-> pre, f |-> f]

ZipProbeInputs ==
    {ZipProbeInput(z, pre, f) : z \in SampleZips, pre \in StartFileSystems,
                                f \in IngestFaults}

InitIngest ==
    /\ probe \in ProbeInputs \cup ZipProbeInputs
    /\ fs = probe.pre
    /\ atexit_handlers = 0
    /\ setup_cached = FALSE
    /\ phase = "running"
    /\ teardown_runs = 0
    /\ datasets = <<>>
    /\ data_files = <<>>
    /\ processed_files = <<>>
    /\ last = Last("none", <<>>, FALSE, FALSE, FALSE, FALSE, 0, FALSE)
    /\ first_init = None

ProcessZipCallDone(r) ==
    /\ fs' = r.fs
    /\ probe' = [stage |-> "zip_done", zip |-> probe.zip, pre |-> probe.pre,
                 f |-> probe.f, datasets |-> r.datasets, warnings |-> r.warnings,
                 reported |-> r.reported, raised |-> r.raised]

ProcessZipCall ==
    /\ probe.stage = "zip_input"
    /\ ProcessZipCallDone(process_zip_file(fs, probe.zip, probe.f))
    /\ UNCHANGED <<atexit_handlers, setup_cached, phase, teardown_runs, datasets,
                   data_files, processed_files, last, first_init>>

NextIngest == ReadCsvCall \/ ProcessZipCall

SpecIngest == InitIngest /\ [][NextIngest]_vars

(***************************************************************************)
(* The normalization specification: one call of normalize_column_names on  *)
(* a table whose column names are pairwise distinct, as pd.read_csv makes  *)
(* them.                                                                   *)
(***************************************************************************)
\* 'a', 'A', 'a ', 'a_1', 'Preço', 'preco ', Cyrillic 'Ж', and the euro sign
ColumnNames ==
    {<<97>>, <<65>>, <<97, 32>>, <<97, UNDERSCORE, 49>>,
     <<80, 114, 101, 231, 111>>, <<112, 114, 101, 99, 111, 32>>,
     <<1046>>, <<8364>>}

\* a, A, underscore, 1, space, e acute, Cyrillic zhe, euro
NameAlphabet == {97, 65, UNDERSCORE, 49, 32, 233, 1046, 8364}

IsInjective(q) == \A i, j \in 1..Len(q) : q[i] = q[j] => i = j

ColumnLists ==
    {q \in SeqsUpTo(ColumnNames, MaxCols) : IsInjective(q)}
    \cup {<<n>> : n \in SeqsUpTo(NameAlphabet, MaxName) \ {<<>>}}

InitNormalize ==
    /\ probe \in {[stage |-> "norm_input", cols |-> q] : q \in ColumnLists}
    /\ fs = EmptyDir
    /\ atexit_handlers = 0
    /\ setup_cached = FALSE
    /\ phase = "running"
    /\ teardown_runs = 0
    /\ datasets = <<>>
    /\ data_files = <<>>
    /\ processed_files = <<>>
    /\ last = Last("none", <<>>, FALSE, FALSE, FALSE, FALSE, 0, FALSE)
    /\ first_init = None

NormalizeCallDone(r) ==
    probe' = [stage |-> "norm_done", cols |-> probe.cols, df |-> r.df,
              df_normalized |-> r.df_normalized]

NormalizeCall ==
    /\ probe.stage = "norm_input"
    /\ NormalizeCallDone(normalize_column_names_df(probe.cols))
    /\ UNCHANGED <<fs, atexit_handlers, setup_cached, phase, teardown_runs, datasets,
                   data_files, processed_files, last, first_init>>

NextNormalize == NormalizeCall

SpecNormalize == InitNormalize /\ [][NextNormalize]_vars

(***************************************************************************)
(* The listing specification: one call of get_data_directory_info on a     *)
(* directory that is absent or holds any of x.csv, y.CSV, a file in the    *)
(* sub-directory sub, with a file beside DATA_DIR; fault says os.listdir   *)
(* raises.                                                                 *)
(***************************************************************************)
InfoContents == {EmptyCsv, AsciiCsv, AsciiCsv \o AsciiCsv}

InfoFileSystems ==
    {NoFs}
    \cup {[exists |-> TRUE, files |-> g] :
             g \in UNION {[S -> InfoContents] :
                             S \in SUBSET {x_csv, y_CSV, sub_z_csv, up_w_csv}}}

InitInfo ==
    /\ fs \in InfoFileSystems
    /\ probe \in {[stage |-> "info_input", fault |-> b] : b \in BOOLEAN}
    /\ atexit_handlers = 0
    /\ setup_cached = FALSE
    /\ phase = "running"
    /\ teardown_runs = 0
    /\ datasets = <<>>
    /\ data_files = <<>>
    /\ processed_files = <<>>
    /\ last = Last("none", <<>>, FALSE, FALSE, FALSE, FALSE, 0, FALSE)
    /\ first_init = None

InfoCallDone(r) ==
    probe' = [stage |-> "info_done", fault |-> probe.fault, info |-> r.info,
              raised |-> r.raised]

InfoCall ==
    /\ probe.stage = "info_input"
    /\ InfoCallDone(directory_info_call(fs, probe.fault))
    /\ UNCHANGED <<fs, atexit_handlers, setup_cached, phase, teardown_runs, datasets,
                   data_files, processed_files, last, first_init>>

NextInfo == InfoCall

SpecInfo == InitInfo /\ [][NextInfo]_vars

(***************************************************************************)
(* The removal specification: two calls of cleanup_specific_files with the *)
(* same names, on any of the file systems of the listing specification;    *)
(* each call meets its own os.remove failures.                             *)
(***************************************************************************)
InitCleanup ==
    /\ fs \in InfoFileSystems
    /\ probe \in {[stage |-> "rm_input", filenames |-> q, calls |-> 0] :
                     q \in SeqsUpTo({x_csv, y_CSV, up_w_csv}, MaxNames)}
    /\ atexit_handlers = 0
    /\ setup_cached = FALSE
    /\ phase = "running"
    /\ teardown_runs = 0
    /\ datasets = <<>>
    /\ data_files = <<>>
    /\ processed_files = <<>>
    /\ last = Last("none", <<>>, FALSE, FALSE, FALSE, FALSE, 0, FALSE)
    /\ first_init = None

CleanupCallDone(failing, r) ==
    /\ fs' = r.fs
    /\ probe' = [stage |-> "rm_done", filenames |-> probe.filenames,
                 calls |-> probe.calls + 1, pre |-> fs, failing |-> failing,
                 raised |-> r.raised]

CleanupCall ==
    /\ probe.stage \in {"rm_input", "rm_done"}
    /\ probe.calls < MaxCalls
    /\ \E failing \in SUBSET Range(probe.filenames) :
          CleanupCallDone(failing, cleanup_specific_files(fs, probe.filenames, failing))
    /\ UNCHANGED <<atexit_handlers, setup_cached, phase, teardown_runs, datasets,
                   data_files, processed_files, last, first_init>>

SpecCleanup == InitCleanup /\ [][CleanupCall]_vars

(***************************************************************************)
(* AgentInterface.render_response_with_images.  A text is a sequence of    *)
(* one-character strings; the calls made on st are recorded in order as    *)
(* [call, arg, alt_text], alt_text being the loop's variable for "image"   *)
(* and "error" and empty for "markdown".                                   *)
(***************************************************************************)
\* the first position from `from` on where text holds ch, 0 if there is none
FirstIndex(text, ch, from) ==
    IF \E i \in from..Len(text) : text[i] = ch
    THEN CHOOSE i \in from..Len(text) :
             text[i] = ch /\ \A j \in from..(i - 1) : text[j] # ch
    ELSE 0

\* a match of image_pattern  !\[([^\]]*)\]\(([^)]+)\)  that starts at s:
\* the alt text runs to the first ']', the path to the first ')'
image_pattern(text, s) ==
    LET close == FirstIndex(text, "]", s + 2)
        paren == FirstIndex(text, ")", close + 2)
    IN IF /\ s + 1 <= Len(text)
          /\ text[s] = "!" /\ text[s + 1] = "["
          /\ close > 0
          /\ close + 1 <= Len(text) /\ text[close + 1] = "("
          /\ paren > close + 2
       THEN [found |-> TRUE, alt |-> SubSeq(text, s + 2, close - 1),
             path |-> SubSeq(text, close + 2, paren - 1), end |-> paren]
       ELSE [found |-> FALSE, alt |-> <<>>, path |-> <<>>, end |-> 0]

\* re.split(image_pattern, response_text) from position s on, the current
\* segment having begun at seg: text, alt, path, text, alt, path, ..., text
RECURSIVE re_split(_, _, _)
re_split(text, s, seg) ==
    IF s > Len(text) THEN <<SubSeq(text, seg, Len(text))>>
    ELSE IF image_pattern(text, s).found
    THEN <<SubSeq(text, seg, s - 1), image_pattern(text, s).alt,
           image_pattern(text, s).path>>
         \o re_split(text, image_pattern(text, s).end + 1,
                     image_pattern(text, s).end + 1)
    ELSE re_split(text, s + 1, seg)

\* the while loop over parts; i counts from 1, existing holds the paths for
\* which os.path.exists is true
RECURSIVE render_loop(_, _, _, _)
render_loop(parts, i, existing, calls) ==
    IF i > Len(parts) THEN calls
    ELSE IF /\ parts[i] # <<>>
            /\ ~(i + 2 <= Len(parts) /\ parts[i + 1] # <<>> /\ parts[i + 2] # <<>>)
    THEN render_loop(parts, i + 1, existing,
                     Append(calls, [call |-> "markdown", arg |-> parts[i],
                                    alt_text |-> <<>>]))
    ELSE IF i + 2 <= Len(parts)
    THEN render_loop(parts, i + 3, existing,
                     (IF parts[i] # <<>>
                      THEN Append(calls, [call |-> "markdown", arg |-> parts[i],
                                          alt_text |-> <<>>])
                      ELSE calls)
                     \o <<[call |-> IF parts[i + 2] \in existing THEN "image" ELSE "error",
                           arg |-> parts[i + 2], alt_text |-> parts[i + 1]]>>)
    ELSE render_loop(parts, i + 1, existing, calls)

render_response_with_images(response_text, existing) ==
    render_loop(re_split(response_text, 1, 1), 1, existing, <<>>)

(***************************************************************************)
(* The rendering specification: one call of render_response_with_images    *)
(* on a response made of up to MaxPieces pieces.                           *)
(***************************************************************************)
\* "a", "![b](p)", "![](q)", and the delimiters of a reference
Pieces ==
    {<<"a">>, <<"!", "[", "b", "]", "(", "p", ")">>, <<"!", "[", "]", "(", "q", ")">>,
     <<"!", "[">>, <<"]", "(">>, <<")">>}

RECURSIVE Concat(_)
Concat(pieces) == IF pieces = <<>> THEN <<>> ELSE Head(pieces) \o Concat(Tail(pieces))

ResponseTexts == {Concat(q) : q \in SeqsUpTo(Pieces, MaxPieces)}

InitRender ==
    /\ probe \in {[stage |-> "render_input", response_text |-> t, existing |-> e] :
                     t \in ResponseTexts, e \in {{}, {<<"p">>, <<"q">>}}}
    /\ fs = NoFs
    /\ atexit_handlers = 0
    /\ setup_cached = FALSE
    /\ phase = "running"
    /\ teardown_runs = 0
    /\ datasets = <<>>
    /\ data_files = <<>>
    /\ processed_files = <<>>
    /\ last = Last("none", <<>>, FALSE, FALSE, FALSE, FALSE, 0, FALSE)
    /\ first_init = None

RenderCall ==
    /\ probe.stage = "render_input"
    /\ probe' = [stage |-> "render_done", response_text |-> probe.response_text,
                 existing |-> probe.existing,
                 parts |-> re_split(probe.response_text, 1, 1),
                 calls |-> render_response_with_images(probe.response_text,
                                                       probe.existing)]
    /\ UNCHANGED <<fs, atexit_handlers, setup_cached, phase, teardown_runs, datasets,
                   data_files, processed_files, last, first_init>>

SpecRender == InitRender /\ [][RenderCall]_vars

(***************************************************************************)
(* Properties of the directory lifecycle, checked under Spec.              *)
(***************************************************************************)
\* what get_data_directory_info reports for a directory that exists and
\* holds nothing
EmptyInfo == [exists |-> TRUE, files |-> {}, total_size |-> 0]

C3_TeardownNeverRaises ==
    [][/\ last'.cleanup_ran => ~last'.raised
       /\ (last'.op = "clear_dir") => last'.init_ran
       /\ (teardown_runs' = teardown_runs + 1)
            => /\ ~fs.exists => (fs' = fs /\ ~last'.cleanup_caught)
               /\ (fs.exists /\ ~last'.cleanup_caught)
                    => (~fs'.exists /\ Inside(fs') = {})
               /\ last'.cleanup_caught => fs'.exists]_vars

\* the exit handler met a removal failure, caught it and returned
C3_RemovalFailureCaught ==
    /\ last.op = "atexit"
    /\ last.cleanup_caught
    /\ ~last.raised
    /\ fs.exists

\* C4 as stated: cleanup_data_directory runs at most once as an exit handler
\* in the lifetime of a process, however many initialize_data_directory
\* calls were made.
C4_TeardownRunsAtMostOnce == teardown_runs <= 1

\* C5 as stated: while the session runs, the working directory exists
\* whenever data_files references at least one file.
C5_DirectoryExistsWhileReferenced ==
    (phase = "running" /\ DOMAIN data_files # {}) => fs.exists

(***************************************************************************)
(* Properties of read_csv_file, checked under SpecReadCsv: probe holds the *)
(* arguments of one call, the file system before it and what it returned.  *)
(***************************************************************************)
Done == probe.stage = "done"

\* how many times the call ran pd.read_csv
Attempts == Cardinality({i \in 1..Len(probe.steps) : probe.steps[i] = "read_csv"})

\* C6 as stated: the content is stored before any parsing attempt, a
\* successful call stores it verbatim at DATA_DIR/filename, and after a
\* successful call on an empty directory get_data_directory_info lists
\* exactly one file, named filename, of size len(content).
C6_StoredVerbatimAndListed ==
    Done =>
        /\ Attempts > 0 => probe.steps[1] = "write"
        /\ probe.df # None
             => /\ path_exists(fs, probe.filename)
                /\ fs.files[probe.filename] = probe.content
        /\ (probe.df # None /\ probe.pre = EmptyDir)
             => get_data_directory_info(fs, FALSE).files
                    = {[name |-> probe.filename, size |-> Len(probe.content)]}

\* the order of the candidates as the specification gives it
CandidateOrder == <<"utf-8", "latin-1", "cp1252", "iso-8859-1">>

\* C7: the candidates are tried in the order UTF-8, Latin-1, Windows-1252,
\* ISO-8859-1; the k-th is tried only after each of the first k - 1 raised a
\* decode error, and a returned table is the parse of the content decoded
\* with the first candidate that decodes it.
C7_FirstDecodingCandidateWins ==
    Done =>
        /\ Attempts <= Len(CandidateOrder)
        /\ \A j \in 1..(Attempts - 1) : ~Decode(probe.content, CandidateOrder[j]).ok
        /\ probe.df # None
             => /\ Attempts >= 1
                /\ probe.encoding = CandidateOrder[Attempts]
                /\ Decode(probe.content, CandidateOrder[Attempts]).ok
                /\ probe.df = Table(ParseCsv(
                       Decode(probe.content, CandidateOrder[Attempts]).text))

\* a table was returned from the second candidate, after UTF-8 raised a
\* decode error
C7_SecondCandidateUsed ==
    /\ Done
    /\ probe.df # None
    /\ Attempts = 2
    /\ probe.encoding = "latin-1"
    /\ ~Decode(probe.content, "utf-8").ok

\* C9 as stated: a one-column CSV text whose cell holds a non-ASCII
\* character, encoded in UTF-8, Latin-1, Windows-1252 or ISO-8859-1, comes
\* back as a table whose cell is the original string.
C9_EncodedTextRoundTrips ==
    (Done /\ probe.enc # "raw")
        => /\ probe.df # None
           /\ probe.df.rows = <<<<probe.cell>>>>

\* the directory of the call exists once os.makedirs ran
C10_DirectoryMade == probe.pre.exists \/ ~probe.f.makedirs

\* opening or writing DATA_DIR/filename raises
C10_WriteFails ==
    /\ C10_DirectoryMade
    /\ probe.f.write # "none" \/ probe.filename.dir \notin {"", ".."}

\* the content decodes with some candidate and the parser then raises
C10_ParserRaises ==
    /\ C10_DirectoryMade
    /\ ~C10_WriteFails
    /\ \E k \in 1..Len(CandidateOrder) :
          /\ \A j \in 1..(k - 1) : ~Decode(probe.content, CandidateOrder[j]).ok
          /\ Decode(probe.content, CandidateOrder[k]).ok
          /\ ParseCsv(Decode(probe.content, CandidateOrder[k]).text).error # ""

ZipDone == probe.stage = "zip_done"

\* C11: read_csv_file and process_zip_file return normally for every
\* content and filename: read_csv_file gives either a table with its path or
\* (None, None) with the failure reported, process_zip_file gives a mapping
\* (empty, with the error reported, for bytes that are no archive); no
\* exception reaches the caller.
C11_IngestionNeverRaises ==
    /\ Done => /\ ~probe.raised
               /\ \/ probe.df # None /\ probe.file_path # None /\ ~probe.reported
                  \/ probe.df = None /\ probe.file_path = None /\ probe.reported
    /\ ZipDone => /\ ~probe.raised
                  /\ ~probe.zip.valid => (probe.reported /\ DOMAIN probe.datasets = {})

\* a filename with a path separator and content that is no CSV: the call
\* returned the failure indicator
C11_BadNameAndContentReported ==
    /\ Done
    /\ probe.filename = up_w_csv
    /\ probe.content = EmptyCsv
    /\ probe.df = None /\ probe.file_path = None
    /\ probe.reported /\ ~probe.raised

\* the content decodes with some candidate and the parser accepts it
ContentParses(content) ==
    \E k \in 1..Len(CandidateOrder) :
       /\ \A j \in 1..(k - 1) : ~Decode(content, CandidateOrder[j]).ok
       /\ Decode(content, CandidateOrder[k]).ok
       /\ ParseCsv(Decode(content, CandidateOrder[k]).text).error = ""

\* the members of an archive that are CSV files whose content parses
ParseableCsvEntries(zip) ==
    {i \in 1..Len(zip.entries) :
        /\ ~zip.entries[i].is_dir
        /\ file_extension(zip.entries[i].filename) = "csv"
        /\ zip.entries[i].readable
        /\ ContentParses(zip.entries[i].content)}

\* C12 as stated: with no filesystem error, process_zip_file returns one
\* result, keyed by the entry name, for each member that is not a directory,
\* has the extension csv in any case and parses, whatever directory path its
\* name holds, and no result for any other member.
C12_OneResultPerCsvEntry ==
    (ZipDone /\ probe.zip.valid /\ probe.f = NoIngestFault)
        => DOMAIN probe.datasets
               = {probe.zip.entries[i].filename : i \in ParseableCsvEntries(probe.zip)}

\* the members read_csv_file can store and parse under the faults of the call
SucceedingEntries ==
    {i \in ParseableCsvEntries(probe.zip) :
        /\ probe.zip.entries[i].filename.dir \in {"", ".."}
        /\ probe.f.write = "none"
        /\ probe.pre.exists \/ ~probe.f.makedirs}

\* C13: a member of the archive that fails (unreadable, unparseable or not
\* storable) is skipped and every other CSV member, before or after it, is
\* still processed: the call raises nothing and returns exactly the members
\* that succeeded; one corrupt member and one valid member give one result.
C13_FailingEntryIsolated ==
    (ZipDone /\ probe.zip.valid)
        => /\ ~probe.raised
           /\ DOMAIN probe.datasets
                  = {probe.zip.entries[i].filename : i \in SucceedingEntries}
           /\ (probe.zip \in {CorruptFirstZip, CorruptLastZip} /\ probe.f = NoIngestFault)
                => Cardinality(DOMAIN probe.datasets) = 1

\* the first member has a bad CRC and the member after it was still returned
C13_EntryAfterCorruptOneReturned ==
    /\ ZipDone
    /\ probe.zip = CorruptFirstZip
    /\ probe.f = NoIngestFault
    /\ DOMAIN probe.datasets = {y_CSV}
    /\ probe.warnings = 1

\* C14: given bytes that are no ZIP archive, process_zip_file returns an
\* empty mapping, reports an error, raises nothing and leaves the files of
\* the working directory as they were.
C14_MalformedArchiveReported ==
    (ZipDone /\ ~probe.zip.valid)
        => /\ DOMAIN probe.datasets = {}
           /\ probe.reported
           /\ ~probe.raised
           /\ fs = probe.pre

\* bytes that are no archive were given while the directory held a file
C14_MalformedArchiveLeavesFile ==
    /\ ZipDone
    /\ probe.zip = BadZip
    /\ DOMAIN probe.datasets = {}
    /\ probe.reported
    /\ path_exists(fs, x_csv)
    /\ fs = probe.pre

(***************************************************************************)
(* Properties of normalize_column_names, checked under SpecNormalize:      *)
(* probe.cols holds the column names passed in, probe.df_normalized those  *)
(* returned.                                                               *)
(***************************************************************************)
NormDone == probe.stage = "norm_done"

\* the name matches ^[a-z0-9_]+$
IsSlug(name) ==
    /\ name # <<>>
    /\ \A i \in 1..Len(name) :
          \/ name[i] >= 97 /\ name[i] <= 122
          \/ name[i] >= 48 /\ name[i] <= 57
          \/ name[i] = UNDERSCORE

\* C15 as stated: every name normalize_column_names returns matches
\* ^[a-z0-9_]+$, whatever the input name.
C15_OutputNamesAreSlugs ==
    NormDone => \A i \in 1..Len(probe.df_normalized) : IsSlug(probe.df_normalized[i])

\* C16 as stated: the names normalize_column_names returns are pairwise
\* distinct.
C16_OutputNamesDistinct == NormDone => IsInjective(probe.df_normalized)

\* C17 as stated: normalizing the returned names again gives the same names.
C17_NormalizeIdempotent ==
    NormDone => normalize_column_names(probe.df_normalized) = probe.df_normalized

\* how many columns before the i-th normalize to the same name as the i-th
EarlierSame(i) ==
    Cardinality({j \in 1..(i - 1) :
                    normalize_string(probe.cols[j]) = normalize_string(probe.cols[i])})

\* C18: among the columns that normalize to the same name n, the first in
\* column order is named n and the k-th later one n_k; 'Preço' and 'preco '
\* become 'preco' and 'preco_1'.
C18_RepeatedNamesNumbered ==
    NormDone =>
        /\ Len(probe.df_normalized) = Len(probe.cols)
        /\ \A i \in 1..Len(probe.cols) :
              probe.df_normalized[i]
                  = IF EarlierSame(i) = 0 THEN normalize_string(probe.cols[i])
                    ELSE normalize_string(probe.cols[i]) \o <<UNDERSCORE>>
                             \o Digits(EarlierSame(i))
        /\ probe.cols = <<<<80, 114, 101, 231, 111>>, <<112, 114, 101, 99, 111, 32>>>>
             => probe.df_normalized
                    = <<<<112, 114, 101, 99, 111>>,
                        <<112, 114, 101, 99, 111, UNDERSCORE, 49>>>>

\* three columns that normalize to 'a' came back as 'a', 'a_1', 'a_2'
C18_ThreeColumnsSameName ==
    /\ NormDone
    /\ Len(probe.cols) = 3
    /\ \A i \in 1..3 : normalize_string(probe.cols[i]) = <<97>>
    /\ probe.df_normalized
           = <<<<97>>, <<97, UNDERSCORE, 49>>, <<97, UNDERSCORE, 50>>>>

\* C19: the returned table has as many columns as the one passed in, its
\* i-th name is the normalized i-th input name, alone or followed by a
\* numeric suffix, and the column names of the table passed in are as they
\* were.
C19_ColumnsKeptInOrder ==
    NormDone =>
        /\ Len(probe.df_normalized) = Len(probe.cols)
        /\ probe.df = probe.cols
        /\ \A i \in 1..Len(probe.cols) :
              /\ Len(probe.df_normalized[i]) >= Len(normalize_string(probe.cols[i]))
              /\ SubSeq(probe.df_normalized[i], 1, Len(normalize_string(probe.cols[i])))
                     = normalize_string(probe.cols[i])

\* a table of three columns got new names and the table passed in kept its own
C19_InputTableUntouched ==
    /\ NormDone
    /\ Len(probe.cols) = 3
    /\ Len(probe.df_normalized) = 3
    /\ \A i \in 1..3 : probe.df_normalized[i] # probe.cols[i]
    /\ probe.df = probe.cols

(***************************************************************************)
(* Properties of get_data_directory_info, checked under SpecInfo.          *)
(***************************************************************************)
InfoDone == probe.stage = "info_done"

\* the regular files directly inside DATA_DIR, each with its size
RegularFilesInside ==
    {[name |-> fn, size |-> Len(fs.files[fn])] :
        fn \in {g \in DOMAIN fs.files : g.dir = ""}}

\* the sum of the sizes the call listed
ListedSizes ==
    SeqSum([i \in 1..Cardinality(probe.info.files)
               |-> SetToSeq(probe.info.files)[i].size])

RmDone == probe.stage = "rm_done"

\* the names of the call that were present before it
NamedPresent == {n \in Range(probe.filenames) : path_exists(probe.pre, n)}

\* C21: cleanup_specific_files never raises; it removes every named file
\* that is present and whose deletion does not fail, also those named after
\* a failing one, and leaves a failing one in place; with no named file
\* present the call changes nothing, so a second call after a first one
\* without failures is a no-op, and removing x.csv from a directory that
\* holds only x.csv leaves an empty listing.
C21_NamedFilesRemoved ==
    RmDone =>
        /\ ~probe.raised
        /\ \A n \in NamedPresent : path_exists(fs, n) <=> n \in probe.failing
        /\ NamedPresent = {} => fs = probe.pre
        /\ (/\ probe.pre = [exists |-> TRUE, files |-> (x_csv :> AsciiCsv)]
            /\ probe.filenames = <<x_csv>>
            /\ probe.failing = {})
             => get_data_directory_info(fs, FALSE) = EmptyInfo

\* the deletion of x.csv failed and y.CSV, named after it, was removed
C21_ContinuesAfterFailure ==
    /\ RmDone
    /\ probe.filenames = <<x_csv, y_CSV>>
    /\ probe.failing = {x_csv}
    /\ path_exists(probe.pre, x_csv) /\ path_exists(probe.pre, y_CSV)
    /\ path_exists(fs, x_csv) /\ ~path_exists(fs, y_CSV)
    /\ ~probe.raised

\* C28: cleanup_specific_files changes only the named files: every file
\* that is not named is still there with the same content, and a directory
\* that existed still exists.
C28_OnlyNamedFilesChange ==
    RmDone =>
        /\ \A n \in DOMAIN probe.pre.files \ Range(probe.filenames) :
              /\ n \in DOMAIN fs.files
              /\ fs.files[n] = probe.pre.files[n]
        /\ fs.exists = probe.pre.exists
        /\ DOMAIN fs.files \subseteq DOMAIN probe.pre.files

\* x.csv was removed and y.CSV, not named, is there with its content
C28_UnnamedFileKept ==
    /\ RmDone
    /\ probe.filenames = <<x_csv>>
    /\ path_exists(probe.pre, x_csv) /\ ~path_exists(fs, x_csv)
    /\ path_exists(fs, y_CSV)
    /\ fs.files[y_CSV] = probe.pre.files[y_CSV]
    /\ fs.exists

(***************************************************************************)
(* Properties of the stored files, checked under SpecIngest.               *)
(***************************************************************************)
\* what reading a stored file back gives: the parse of its bytes, decoded
\* with the first candidate that decodes them
ReadBack(content) ==
    ParseCsv(Decode(content,
                    CandidateOrder[CHOOSE k \in 1..Len(CandidateOrder) :
                        /\ Decode(content, CandidateOrder[k]).ok
                        /\ \A j \in 1..(k - 1) : ~Decode(content, CandidateOrder[j]).ok]
                   ).text)

\* C22 as stated: every file a successful read_csv_file or process_zip_file
\* call leaves under the working directory parses as CSV, and its header row
\* holds the column names of the table returned for it.
C22_StoredHeaderNormalized ==
    /\ (Done /\ probe.df # None /\ path_exists(fs, probe.filename))
         => /\ ReadBack(fs.files[probe.filename]).error = ""
            /\ ReadBack(fs.files[probe.filename]).columns = probe.df.columns
    /\ ZipDone
         => \A n \in DOMAIN probe.datasets :
               path_exists(fs, n)
                 => /\ ReadBack(fs.files[n]).error = ""
                    /\ ReadBack(fs.files[n]).columns = probe.datasets[n].df.columns

\* the files the finished call stored and left in place
StoredNames ==
    IF Done THEN (IF probe.df # None /\ path_exists(fs, probe.filename)
                  THEN {probe.filename} ELSE {})
    ELSE IF ZipDone THEN {n \in DOMAIN probe.datasets : path_exists(fs, n)}
    ELSE {}

\* C23 as stated: every file stored by a successful read_csv_file or
\* process_zip_file call is listed by ListAvailableCSVsTool run on the
\* working directory, whatever the case of its extension and on every
\* platform.
C23_StoredFilesListed ==
    \A case_sensitive \in BOOLEAN :
        \A n \in StoredNames : n \in list_available_csvs(fs, case_sensitive)

(***************************************************************************)
(* Properties of the session, checked under Spec.                          *)
(***************************************************************************)
\* C24 as stated: a file the session refers to stays in place while files
\* are uploaded, and the 'clear all' handler leaves none of the files of
\* data_files behind and empties datasets, data_files and processed_files
\* (messages, reset by the same handler, is not part of the state).
C24_StoredUntilCleared ==
    [][/\ last'.op \in {"upload_csv", "upload_zip"}
          => \A n \in DOMAIN data_files : path_exists(fs, n) => path_exists(fs', n)
       /\ last'.op = "clear_all"
          => /\ \A n \in DOMAIN data_files : ~path_exists(fs', n)
             /\ datasets' = <<>> /\ data_files' = <<>> /\ processed_files' = <<>>]_vars

\* C25 as stated: after any sequence of uploads and of presses of the two
\* clear buttons, every path held in data_files is the path of a file that
\* exists.
C25_DataFilesExist ==
    phase = "running" => \A n \in DOMAIN data_files : path_exists(fs, data_files[n])

(***************************************************************************)
(* Further properties of read_csv_file, checked under SpecReadCsv.         *)
(***************************************************************************)
\* C26 as stated: a read_csv_file call that fails leaves every file an
\* earlier ingestion stored in place with its content, also when the call
\* uses the name of such a file.
C26_FailureKeepsEarlierFiles ==
    (Done /\ probe.df = None)
      => \A n \in DOMAIN probe.pre.files :
            path_exists(probe.pre, n)
              => path_exists(fs, n) /\ fs.files[n] = probe.pre.files[n]

\* C27: read_csv_file makes at most two parsing attempts, so the
\* Windows-1252 and ISO-8859-1 candidates and the lossy fallback are never
\* reached, and a returned table was read as UTF-8 or as Latin-1.
C27_OnlyUtf8OrLatin1 ==
    Done => /\ Attempts <= 2
            /\ probe.df # None => probe.encoding \in {"utf-8", "latin-1"}
            /\ probe.df = None => probe.encoding = "none"

\* a table was returned for bytes that are not UTF-8 and hold 0x80, a byte
\* Windows-1252 reads as the euro sign: Latin-1 took them first
C27_Latin1TakesC1Byte ==
    /\ Done
    /\ probe.df # None
    /\ probe.encoding = "latin-1"
    /\ \E i \in 1..Len(probe.content) : probe.content[i] = 128

(***************************************************************************)
(* Further properties of the session, checked under Spec.                  *)
(***************************************************************************)
\* C29: datasets and data_files always have the same keys, and an upload
\* handler calls read_csv_file or process_zip_file only for uploaded files
\* whose name is not in processed_files.
C29_KeysAgreeAndNoReingestion ==
    /\ [](DOMAIN datasets = DOMAIN data_files)
    /\ [][last'.op \in {"upload_csv", "upload_zip"}
            => \A i \in 1..Len(last'.called) :
                  ~InSeq(last'.called[i], processed_files)]_vars

\* an upload handler ran on files that were all processed before and
\* ingested none of them again
C29_ReuploadSkipped ==
    /\ last.op \in {"upload_csv", "upload_zip"}
    /\ last.called = <<>>
    /\ processed_files # <<>>
    /\ DOMAIN datasets # {}

(***************************************************************************)
(* Properties of render_response_with_images, checked under SpecRender.    *)
(***************************************************************************)
RenderDone == probe.stage = "render_done"

\* the image references of the text, in order, as re.split reports them
References ==
    [j \in 1..((Len(probe.parts) - 1) \div 3) |->
        [path |-> probe.parts[3 * j], alt |-> probe.parts[(3 * j) - 1]]]

\* the path and alt text of the image and error calls made, in order
DisplayAttempts ==
    LET shown == SelectSeq(probe.calls, LAMBDA c : c.call # "markdown")
    IN [j \in 1..Len(shown) |-> [path |-> shown[j].arg, alt |-> shown[j].alt_text]]

\* how many text segments between the references are t
SegmentCount(t) ==
    Cardinality({j \in 0..((Len(probe.parts) - 1) \div 3) : probe.parts[(3 * j) + 1] = t})

\* how many markdown calls were made with t
MarkdownCount(t) ==
    Cardinality({k \in 1..Len(probe.calls) :
                    probe.calls[k].call = "markdown" /\ probe.calls[k].arg = t})

\* C30 as stated: the call ends, makes one image or error call per image
\* reference, in order, with the reference's own path and alt text, also
\* when the alt text is empty, and makes one markdown call per non-empty
\* text segment between the references.
C30_EveryReferenceDisplayedOnce ==
    RenderDone
      => /\ DisplayAttempts = References
         /\ \A t \in Range(probe.parts) \cup {c.arg : c \in Range(probe.calls)} :
               t # <<>> => MarkdownCount(t) = SegmentCount(t)

====
